---- MODULE Spec2Model ----
(***************************************************************************)
(* dumpy.py: render a directory tree as text lines and concatenate the     *)
(* contents of selected files.                                             *)
(*                                                                         *)
(* A Python str is a sequence of characters, each character a one-element  *)
(* TLA+ string ("a", "/", "\n").  The four box-drawing characters of the   *)
(* tree are written "corner" (U+2514), "tee" (U+251C), "hbar" (U+2500) and *)
(* "vbar" (U+2502); each is ONE character of the modelled string.          *)
(* A pathlib.Path is the sequence of its parts; str(path) joins them with  *)
(* "/".  The filesystem snapshot is a function from paths to entries.      *)
(***************************************************************************)
EXTENDS Integers, Sequences, FiniteSets, TLC

VARIABLES
    disk,              \* the filesystem snapshot: path -> [is_file, data, error]
    repo_path,         \* main's argument repo_path, a path
    exclude,           \* main's option --exclude, a set of names
    include_content,   \* main's option --include-content, a set of patterns
    gitignore_rules,   \* the path strings the rules of repo_path/.gitignore match
    gitignore_matcher, \* main's local gitignore_matcher: the path strings it answers True for
    exclude_patterns,  \* main's local exclude_patterns
    include_patterns,  \* main's local include_patterns
    tree_lines,        \* main's local tree_lines, each line kept with the path it renders
    content_lines,     \* main's local content_lines
    output_file,       \* the text written to output_file, or NotWritten
    pc                 \* the position in main

vars == <<disk, repo_path, exclude, include_content, gitignore_rules,
          gitignore_matcher, exclude_patterns, include_patterns, tree_lines, content_lines, output_file, pc>>

---------------------------------------------------------------------------
(* Strings *)

\* The code points of the characters that names are made of.
CodePoints ==
    ("." :> 46) @@ ("/" :> 47) @@ ("A" :> 65) @@ ("B" :> 66) @@ ("C" :> 67) @@ ("D" :> 68)
    @@ ("E" :> 69) @@ ("F" :> 70) @@ ("G" :> 71) @@ ("H" :> 72) @@ ("I" :> 73) @@ ("J" :> 74)
    @@ ("K" :> 75) @@ ("L" :> 76) @@ ("M" :> 77) @@ ("N" :> 78) @@ ("O" :> 79) @@ ("P" :> 80)
    @@ ("Q" :> 81) @@ ("R" :> 82) @@ ("S" :> 83) @@ ("T" :> 84) @@ ("U" :> 85) @@ ("V" :> 86)
    @@ ("W" :> 87) @@ ("X" :> 88) @@ ("Y" :> 89) @@ ("Z" :> 90) @@ ("_" :> 95) @@ ("a" :> 97)
    @@ ("b" :> 98) @@ ("c" :> 99) @@ ("d" :> 100) @@ ("e" :> 101) @@ ("f" :> 102) @@ ("g" :> 103)
    @@ ("h" :> 104) @@ ("i" :> 105) @@ ("j" :> 106) @@ ("k" :> 107) @@ ("l" :> 108) @@ ("m" :> 109)
    @@ ("n" :> 110) @@ ("o" :> 111) @@ ("p" :> 112) @@ ("q" :> 113) @@ ("r" :> 114) @@ ("s" :> 115)
    @@ ("t" :> 116) @@ ("u" :> 117) @@ ("v" :> 118) @@ ("w" :> 119) @@ ("x" :> 120) @@ ("y" :> 121)
    @@ ("z" :> 122)

\* ord(c)
Ord(c) == CodePoints[c]

\* str.__lt__: lexicographic order by code point; a proper prefix is smaller.
StrLess(s, t) ==
    \E i \in 1..(Len(t)) :
        /\ i <= Len(s) + 1
        /\ \A j \in 1..(i - 1) : s[j] = t[j]
        /\ \/ i = Len(s) + 1
           \/ Ord(s[i]) < Ord(t[i])

\* str.startswith and str.endswith
StartsWith(s, p) == Len(p) <= Len(s) /\ SubSeq(s, 1, Len(p)) = p
EndsWith(s, p) == Len(p) <= Len(s) /\ SubSeq(s, Len(s) - Len(p) + 1, Len(s)) = p

\* c * n for a one-character string c
Repeat(c, n) == [i \in 1..n |-> c]

\* sep.join(items)
RECURSIVE Join(_, _)
Join(sep, items) ==
    IF Len(items) = 0 THEN <<>>
    ELSE IF Len(items) = 1 THEN items[1]
    ELSE items[1] \o sep \o Join(sep, Tail(items))

\* The concatenation of a sequence of sequences (list.extend in a loop).
RECURSIVE Flatten(_)
Flatten(seqs) == IF Len(seqs) = 0 THEN <<>> ELSE seqs[1] \o Flatten(Tail(seqs))

---------------------------------------------------------------------------
(* Names and paths *)

n_git == <<".","g","i","t">>
n_pycache == <<"_","_","p","y","c","a","c","h","e","_","_">>
n_node_modules == <<"n","o","d","e","_","m","o","d","u","l","e","s">>
n_pytest_cache == <<".","p","y","t","e","s","t","_","c","a","c","h","e">>
n_dotvenv == <<".","v","e","n","v">>
n_venv == <<"v","e","n","v">>
n_env == <<".","e","n","v">>
n_idea == <<".","i","d","e","a">>
n_vscode == <<".","v","s","c","o","d","e">>

DEFAULT_EXCLUDES ==
    {n_git, n_pycache, n_node_modules, n_pytest_cache, n_dotvenv, n_venv, n_env,
     n_idea, n_vscode}

\* str(path)
PathStr(path) == Join(<<"/">>, path)

\* path.name
Name(path) == path[Len(path)]

\* The names of path.parents: every proper ancestor, and last the anchor ("." of a
\* relative path), whose name is the empty string.
ParentNames(path) == {path[i] : i \in 1..(Len(path) - 1)} \cup {<<>>}

IsPrefix(p, q) == Len(p) <= Len(q) /\ SubSeq(q, 1, Len(p)) = p
Parent(path) == SubSeq(path, 1, Len(path) - 1)

\* path.is_file(), path.is_dir(), path.iterdir()
is_file(fsys, path) == path \in DOMAIN fsys /\ fsys[path].is_file
is_dir(fsys, path) == path \in DOMAIN fsys /\ ~fsys[path].is_file
iterdir(fsys, path) == {p \in DOMAIN fsys : Len(p) = Len(path) + 1 /\ IsPrefix(path, p)}

---------------------------------------------------------------------------
(* The path classifier *)

n_gitignore == <<".","g","i","t","i","g","n","o","r","e">>

\* get_gitignore_matcher: the matcher parse_gitignore builds from
\* repo_path/.gitignore when that file exists, else the matcher that is always
\* False.  A matcher is given as the set of path strings it answers True for.
get_gitignore_matcher(fsys, path, rules) ==
    IF (path \o <<n_gitignore>>) \in DOMAIN fsys THEN rules ELSE {}

\* gitignore_matcher(str(path))
gitignore_matches(matcher, path_str) == path_str \in matcher

should_exclude_own_name_only(path, excl, matcher) ==
    \/ Name(path) \in excl
    \/ gitignore_matches(matcher, PathStr(path))

should_exclude(path, excl, matcher) ==
    \/ \E parent_name \in ParentNames(path) : parent_name \in excl
    \/ Name(path) \in excl
    \/ gitignore_matches(matcher, PathStr(path))

---------------------------------------------------------------------------
(* The tree renderer *)

\* connector = "corner-- " if is_last else "tee-- "
connector(is_last) == IF is_last THEN <<"corner", "hbar", "hbar", " ">> ELSE <<"tee", "hbar", "hbar", " ">>

new_prefix_always_blank(prefix, is_last) == prefix \o <<" ", " ", " ", " ">>

\* new_prefix = prefix + ("    " if is_last else "|   ")
new_prefix(prefix, is_last) == prefix \o (IF is_last THEN <<" ", " ", " ", " ">> ELSE <<"vbar", " ", " ", " ">>)

tree_key_less_name_only(fsys, x, y) == StrLess(Name(x), Name(y))

\* key=lambda x: (x.is_file(), x.name): tuples compare by their first component
\* (False < True), then by their second.
tree_key_less(fsys, x, y) ==
    \/ ~is_file(fsys, x) /\ is_file(fsys, y)
    \/ is_file(fsys, x) = is_file(fsys, y) /\ StrLess(Name(x), Name(y))

tree_contents_files_only(fsys, path) ==
    LET items == {p \in iterdir(fsys, path) : is_file(fsys, p)}
    IN  [i \in 1..Cardinality(items) |->
            CHOOSE x \in items : Cardinality({y \in items : tree_key_less(fsys, y, x)}) = i - 1]

\* contents = sorted(list(path.iterdir()), key=lambda x: (x.is_file(), x.name)):
\* the entries in ascending order of the key, which orders them strictly (no two
\* entries of a directory share a name).
tree_contents(fsys, path) ==
    LET items == iterdir(fsys, path)
    IN  [i \in 1..Cardinality(items) |->
            CHOOSE x \in items : Cardinality({y \in items : tree_key_less(fsys, y, x)}) = i - 1]

is_last_item_among_last_two(i, contents) == i >= Len(contents) - 1

\* is_last_item = i == len(contents) - 1, for enumerate's 0-based i; here i counts
\* from 1.
is_last_item(i, contents) == i = Len(contents)

\* generate_tree: the lines of path's subtree; each line is kept with its path.
RECURSIVE generate_tree(_, _, _, _, _, _)
generate_tree(fsys, path, excl, matcher, prefix, is_last) ==
    IF should_exclude(path, excl, matcher)
    THEN <<>>
    ELSE LET line == [path |-> path, text |-> prefix \o connector(is_last) \o Name(path)]
             child_prefix == new_prefix(prefix, is_last)
             contents == tree_contents(fsys, path)
         IN  IF is_dir(fsys, path)
             THEN <<line>> \o Flatten([i \in 1..Len(contents) |->
                      generate_tree(fsys, contents[i], excl, matcher,
                                    child_prefix, is_last_item(i, contents))])
             ELSE <<line>>

---------------------------------------------------------------------------
(* Inclusion patterns *)

matches_pattern_full_path_only(path, patterns) ==
    \E pattern \in patterns :
        \/ pattern = PathStr(path)
        \/ /\ StartsWith(pattern, <<"*", "*", "/">>)
           /\ Name(path) = SubSeq(pattern, 4, Len(pattern))
        \/ /\ ~StartsWith(pattern, <<"*", "*", "/">>)
           /\ \E k \in 1..Len(pattern) : pattern[k] = "/"
           /\ EndsWith(PathStr(path), pattern)

\* matches_pattern: some pattern equals str(path) or path.name, or starts with
\* "**/" and its rest equals path.name, or else holds a "/" and ends str(path).
matches_pattern(path, patterns) ==
    \E pattern \in patterns :
        \/ pattern = PathStr(path)
        \/ pattern = Name(path)
        \/ /\ StartsWith(pattern, <<"*", "*", "/">>)
           /\ Name(path) = SubSeq(pattern, 4, Len(pattern))
        \/ /\ ~StartsWith(pattern, <<"*", "*", "/">>)
           /\ \E k \in 1..Len(pattern) : pattern[k] = "/"
           /\ EndsWith(PathStr(path), pattern)

---------------------------------------------------------------------------
(* Reading a file *)

NoError == <<"no error">>

\* open(..., newline=None), the text mode of Path.read_text: "\r\n" and a lone
\* "\r" are read as "\n".
RECURSIVE UniversalNewlines(_)
UniversalNewlines(data) ==
    IF Len(data) = 0 THEN <<>>
    ELSE IF data[1] = "\r"
         THEN IF Len(data) >= 2 /\ data[2] = "\n"
              THEN <<"\n">> \o UniversalNewlines(SubSeq(data, 3, Len(data)))
              ELSE <<"\n">> \o UniversalNewlines(Tail(data))
         ELSE <<data[1]>> \o UniversalNewlines(Tail(data))

\* The line boundaries of str.splitlines among the modelled characters.
IsLineBoundary(c) == c \in {"\n", "\r", "\f"}

\* str.splitlines(): the lines of text without their terminators; "\r\n" is one
\* terminator, and a terminator at the end of text starts no further line.
RECURSIVE splitlines(_)
splitlines(text) ==
    IF Len(text) = 0 THEN <<>>
    ELSE IF \E i \in 1..Len(text) : IsLineBoundary(text[i])
         THEN LET i == CHOOSE k \in 1..Len(text) :
                          IsLineBoundary(text[k]) /\ \A j \in 1..(k - 1) : ~IsLineBoundary(text[j])
                  skip == IF text[i] = "\r" /\ i < Len(text) /\ text[i + 1] = "\n" THEN 2 ELSE 1
              IN  <<SubSeq(text, 1, i - 1)>> \o splitlines(SubSeq(text, i + skip, Len(text)))
         ELSE <<text>>

file_header_no_trailing_newline(path) ==
    <<"\n", "F", "i", "l", "e", ":", " ">> \o PathStr(path) \o <<"\n">>
        \o Repeat("=", Len(PathStr(path)) + 6)

\* "\nFile: {path}\n{'=' * (len(str(path)) + 6)}\n": one element of the list
file_header(path) ==
    <<"\n", "F", "i", "l", "e", ":", " ">> \o PathStr(path) \o <<"\n">>
        \o Repeat("=", Len(PathStr(path)) + 6) \o <<"\n">>

\* f"Error reading file: {e}"
error_line(message) ==
    <<"E", "r", "r", "o", "r", " ", "r", "e", "a", "d", "i", "n", "g", " ",
      "f", "i", "l", "e", ":", " ">> \o message

file_block_partial_on_error(fsys, path) ==
    <<file_header(path)>> \o splitlines(UniversalNewlines(fsys[path].data))
        \o (IF fsys[path].error = NoError THEN <<>> ELSE <<error_line(fsys[path].error)>>)

\* The block of a selected file: the header, then the lines of read_text(), or the
\* error line when read_text() raises.
file_block(fsys, path) ==
    <<file_header(path)>> \o
        (IF fsys[path].error = NoError
         THEN splitlines(UniversalNewlines(fsys[path].data))
         ELSE <<error_line(fsys[path].error)>>)

---------------------------------------------------------------------------
(* The content extractor *)

\* PurePath.__lt__: the parts compare as lists of strings.
path_less(x, y) ==
    \E i \in 1..Len(y) :
        /\ i <= Len(x) + 1
        /\ \A j \in 1..(i - 1) : x[j] = y[j]
        /\ \/ i = Len(x) + 1
           \/ StrLess(x[i], y[i])

content_items_dirs_first(fsys, path) == tree_contents(fsys, path)

\* sorted(path.iterdir())
content_items(fsys, path) ==
    LET items == iterdir(fsys, path)
    IN  [i \in 1..Cardinality(items) |->
            CHOOSE x \in items : Cardinality({y \in items : path_less(y, x)}) = i - 1]

RECURSIVE get_file_contents(_, _, _, _, _)
get_file_contents(fsys, path, incl, excl, matcher) ==
    IF is_file(fsys, path)
    THEN IF matches_pattern(path, incl) /\ ~should_exclude(path, excl, matcher)
         THEN file_block(fsys, path)
         ELSE <<>>
    ELSE IF is_dir(fsys, path)
    THEN LET items == content_items(fsys, path)
         IN  Flatten([i \in 1..Len(items) |->
                 get_file_contents(fsys, items[i], incl, excl, matcher)])
    ELSE <<>>

---------------------------------------------------------------------------
(* main *)

NotWritten == <<"not written">>
NoPath == <<>>

s_directory_structure ==
    <<"D","i","r","e","c","t","o","r","y"," ","S","t","r","u","c","t","u","r","e",":">>
s_file_contents == <<"\n","F","i","l","e"," ","C","o","n","t","e","n","t","s",":">>

\* repo_path = Path(repo_path); exclude_patterns = DEFAULT_EXCLUDES.union(set(exclude));
\* include_patterns = set(include_content); gitignore_matcher = get_gitignore_matcher(repo_path)
BuildRuleSets ==
    /\ pc = "start"
    /\ exclude_patterns' = DEFAULT_EXCLUDES \cup exclude
    /\ include_patterns' = include_content
    /\ gitignore_matcher' = get_gitignore_matcher(disk, repo_path, gitignore_rules)
    /\ pc' = "rules"
    /\ UNCHANGED <<disk, repo_path, exclude, include_content, gitignore_rules,
                   tree_lines, content_lines, output_file>>

\* tree_lines = ["Directory Structure:", "-------------------"];
\* tree_lines.extend(generate_tree(repo_path, exclude_patterns, gitignore_matcher))
GenerateTree ==
    /\ pc = "rules"
    /\ tree_lines' =
           <<[path |-> NoPath, text |-> s_directory_structure],
             [path |-> NoPath, text |-> Repeat("-", 19)]>>
           \o generate_tree(disk, repo_path, exclude_patterns, gitignore_matcher, <<>>, TRUE)
    /\ pc' = "tree"
    /\ UNCHANGED <<disk, repo_path, exclude, include_content, gitignore_rules,
                   gitignore_matcher, exclude_patterns, include_patterns,
                   content_lines, output_file>>

\* if include_patterns: content_lines = ["\nFile Contents:", "-------------"];
\* content_lines.extend(get_file_contents(...))
GetFileContents ==
    /\ pc = "tree"
    /\ include_patterns /= {}
    /\ content_lines' =
           <<s_file_contents, Repeat("-", 13)>>
           \o get_file_contents(disk, repo_path, include_patterns, exclude_patterns,
                                gitignore_matcher)
    /\ pc' = "contents"
    /\ UNCHANGED <<disk, repo_path, exclude, include_content, gitignore_rules,
                   gitignore_matcher, exclude_patterns, include_patterns,
                   tree_lines, output_file>>

\* else: content_lines = []
SkipContents ==
    /\ pc = "tree"
    /\ include_patterns = {}
    /\ content_lines' = <<>>
    /\ pc' = "contents"
    /\ UNCHANGED <<disk, repo_path, exclude, include_content, gitignore_rules,
                   gitignore_matcher, exclude_patterns, include_patterns,
                   tree_lines, output_file>>

\* The text main writes: '\n'.join(tree_lines + content_lines)
document(tlines, clines) ==
    Join(<<"\n">>, [i \in 1..Len(tlines) |-> tlines[i].text] \o clines)

\* output_path.write_text('\n'.join(tree_lines + content_lines)) succeeds
WriteOutput ==
    /\ pc = "contents"
    /\ output_file' = document(tree_lines, content_lines)
    /\ pc' = "done"
    /\ UNCHANGED <<disk, repo_path, exclude, include_content, gitignore_rules,
                   gitignore_matcher, exclude_patterns, include_patterns,
                   tree_lines, content_lines>>

\* write_text raises: the error is echoed and the process exits with status 1
WriteFails ==
    /\ pc = "contents"
    /\ pc' = "exit1"
    /\ UNCHANGED <<disk, repo_path, exclude, include_content, gitignore_rules,
                   gitignore_matcher, exclude_patterns, include_patterns,
                   tree_lines, content_lines, output_file>>

Next ==
    \/ BuildRuleSets
    \/ GenerateTree
    \/ GetFileContents
    \/ SkipContents
    \/ WriteOutput
    \/ WriteFails

---------------------------------------------------------------------------
(* The inputs of a run *)

MaxEntries == 4
MaxTextLen == 3

n_r == <<"r">>
n_a == <<"a">>
n_b == <<"b">>
n_docs == <<"d","o","c","s">>
n_README == <<"R","E","A","D","M","E",".","m","d">>

\* The entries a snapshot may hold, relative to repo_path; an entry named a,
\* README.md or .gitignore is a file, any other a directory.
FileNames == {n_a, n_README, n_gitignore}
RelPaths ==
    {<<n_git>>, <<n_b>>, <<n_docs>>, <<n_a>>, <<n_README>>,
     <<n_git, n_a>>, <<n_b, n_a>>, <<n_b, n_b>>, <<n_docs, n_README>>,
     <<n_b, n_b, n_a>>}

\* The sets of at most k entries that hold, with an entry, its parent directory.
RECURSIVE TreesUpTo(_)
TreesUpTo(k) ==
    IF k = 0 THEN {{}}
    ELSE LET smaller == TreesUpTo(k - 1)
         IN  smaller \cup UNION {
                 {t \cup {q} : q \in {x \in RelPaths \ t : Len(x) = 1 \/ Parent(x) \in t}}
                 : t \in smaller}

ErrMessage == <<"d","e","n","i","e","d">>
TextChars == {"x", "\n", "\r", "\f"}
Texts == UNION {[1..n -> TextChars] : n \in 0..MaxTextLen}

\* The snapshot with tree under root; texts gives the bytes of the files it names,
\* every other file holds its own name and a newline; reading a file of
\* unreadable raises.
MakeDisk(root, tree, with_gitignore, texts, unreadable) ==
    LET rels == {<<>>} \cup tree \cup (IF with_gitignore THEN {<<n_gitignore>>} ELSE {})
    IN  [p \in {root \o q : q \in rels} |->
            IF Len(p) > Len(root) /\ Name(p) \in FileNames
            THEN [is_file |-> TRUE,
                  data |-> IF p \in DOMAIN texts THEN texts[p] ELSE Name(p) \o <<"\n">>,
                  error |-> IF p \in unreadable THEN ErrMessage ELSE NoError]
            ELSE [is_file |-> FALSE, data |-> <<>>, error |-> NoError]]

ExcludeChoices == {{}, {n_b}}
IncludeChoices ==
    {{}, {n_README}, {n_a, PathStr(<<n_docs, n_README>>)},
     {PathStr(<<n_r, n_a>>), PathStr(<<n_b, n_a>>), <<"*", "*", "/">> \o n_README}}

InitLocals ==
    /\ exclude_patterns = {}
    /\ include_patterns = {}
    /\ gitignore_matcher = {}
    /\ tree_lines = <<>>
    /\ content_lines = <<>>
    /\ output_file = NotWritten
    /\ pc = "start"

\* repo_path is r, or venv/r for the smallest snapshots.
Roots(tree) == IF Cardinality(tree) <= 1 THEN {<<n_r>>, <<n_venv, n_r>>} ELSE {<<n_r>>}

\* Every snapshot of at most MaxEntries entries, with a .gitignore whose rules match
\* at most one entry and each choice of options; when contents are asked for, at
\* most one file is unreadable.
Init ==
    /\ exclude \in ExcludeChoices
    /\ include_content \in IncludeChoices
    /\ \E tree \in TreesUpTo(MaxEntries) :
       \E ignored \in {{}} \cup {{q} : q \in tree} :
       \E unreadable \in {{}} \cup {{q} : q \in {x \in tree : Name(x) \in FileNames /\ include_content /= {}}} :
           /\ repo_path \in Roots(tree)
           /\ gitignore_rules = {PathStr(repo_path \o q) : q \in ignored}
           /\ disk = MakeDisk(repo_path, tree, ignored /= {}, <<>>,
                              {repo_path \o q : q \in unreadable})
    /\ InitLocals

Spec == Init /\ [][Next]_vars

\* The snapshot r/{a, b/a} where r/a holds any text of at most MaxTextLen characters,
\* with and without r/README.md and an unreadable r/b/a.
InitText ==
    /\ repo_path = <<n_r>>
    /\ \E text \in Texts, unreadable \in {{}, {<<n_r, n_b, n_a>>}}, more \in {{}, {<<n_README>>}} :
           disk = MakeDisk(repo_path, {<<n_a>>, <<n_b>>, <<n_b, n_a>>} \cup more, FALSE,
                           [p \in {<<n_r, n_a>>} |-> text], unreadable)
    /\ gitignore_rules = {}
    /\ exclude = {}
    /\ include_content \in {{}, {n_a}}
    /\ InitLocals

SpecText == InitText /\ [][Next]_vars

---------------------------------------------------------------------------
(* What the two outputs hold *)

TreeDone == pc \in {"tree", "contents", "done", "exit1"}
ContentsDone == pc \in {"contents", "done", "exit1"}

\* The lines generate_tree returned, and the paths they render.
TreeBody == SubSeq(tree_lines, 3, Len(tree_lines))
RenderedPaths == {TreeBody[i].path : i \in 1..Len(TreeBody)}

\* The elements get_file_contents returned.  Only a header starts with "\n":
\* splitlines leaves no "\n" in a line, and the error line starts with "E".
ContentBody == SubSeq(content_lines, 3, Len(content_lines))
IsHeader(element) == Len(element) > 0 /\ element[1] = "\n"
HeaderIndexes(body) == {i \in 1..Len(body) : IsHeader(body[i])}
EmittedPaths == {p \in DOMAIN disk : \E i \in 1..Len(ContentBody) : ContentBody[i] = file_header(p)}

\* The block that starts at index i of body: up to the next header or the end.
BlockAt(body, i) ==
    LET later == {j \in HeaderIndexes(body) : j > i}
        stop == IF later = {} THEN Len(body) ELSE (CHOOSE j \in later : \A k \in later : j <= k) - 1
    IN  SubSeq(body, i, stop)

\* The bare name of path, or of one of its ancestor directories, is in the exclusion set.
NameExcluded(path) == \E i \in 1..Len(path) : path[i] \in (DEFAULT_EXCLUDES \cup exclude)

\* C1: a path whose own bare name, or the bare name of one of its ancestor
\* directories, is in the exclusion set (the defaults united with --exclude) has no
\* line in generate_tree's output and no content block in get_file_contents' output.
C1_ExcludedNamesNeverAppear ==
    \A p \in DOMAIN disk :
        NameExcluded(p) =>
            /\ TreeDone => p \notin RenderedPaths
            /\ ContentsDone => p \notin EmittedPaths

\* A finished run with both outputs non-empty, over a snapshot holding a file that an
\* inclusion pattern selects and that has an excluded ancestor but no excluded name.
C1_Witness ==
    /\ pc = "done"
    /\ RenderedPaths /= {}
    /\ EmittedPaths /= {}
    /\ \E p \in DOMAIN disk :
           /\ is_file(disk, p)
           /\ matches_pattern(p, include_patterns)
           /\ Name(p) \notin exclude_patterns
           /\ \E i \in 1..(Len(p) - 1) : p[i] \in exclude_patterns

\* C2: if should_exclude excludes a directory, no descendant of it appears in the
\* tree output or in the content output; and every file whose content is emitted has
\* a line in the tree.
C2_ExclusionTransitiveInBothOutputs ==
    ContentsDone =>
        /\ \A d \in DOMAIN disk :
               (is_dir(disk, d) /\ should_exclude(d, exclude_patterns, gitignore_matcher)) =>
                   \A p \in DOMAIN disk :
                       (IsPrefix(d, p) /\ p /= d) =>
                           p \notin RenderedPaths /\ p \notin EmittedPaths
        /\ EmittedPaths \subseteq RenderedPaths

\* The scenario of C3: the inclusion set is {README.md}, the root holds README.md and
\* docs/README.md, and nothing on the way to either is excluded.
C3_Scenario ==
    /\ ContentsDone
    /\ include_content = {n_README}
    /\ (repo_path \o <<n_README>>) \in DOMAIN disk
    /\ (repo_path \o <<n_docs, n_README>>) \in DOMAIN disk
    /\ \A p \in {repo_path \o <<n_README>>, repo_path \o <<n_docs, n_README>>} :
           ~should_exclude(p, exclude_patterns, gitignore_matcher)

\* C3 as stated: in the scenario only the root-level README.md gets a content block.
C3_Original_RootLevelOnly ==
    C3_Scenario =>
        /\ (repo_path \o <<n_README>>) \in EmittedPaths
        /\ (repo_path \o <<n_docs, n_README>>) \notin EmittedPaths

\* C3 as amended: with the inclusion set {README.md} the files that get a content
\* block are the files named README.md that should_exclude does not exclude, at any
\* depth; in the scenario both README.md and docs/README.md get one.
C3_BareNameSelectsAtAnyDepth ==
    /\ (ContentsDone /\ include_content = {n_README}) =>
           EmittedPaths = {p \in DOMAIN disk :
                              /\ is_file(disk, p)
                              /\ Name(p) = n_README
                              /\ ~should_exclude(p, exclude_patterns, gitignore_matcher)}
    /\ C3_Scenario =>
           /\ (repo_path \o <<n_README>>) \in EmittedPaths
           /\ (repo_path \o <<n_docs, n_README>>) \in EmittedPaths

C3_Witness == C3_Scenario /\ pc = "done"

---------------------------------------------------------------------------
(* The shape of the tree lines *)

Corner == <<"corner", "hbar", "hbar", " ">>
Tee == <<"tee", "hbar", "hbar", " ">>

\* A line is prefix + connector + name: the connector is the four characters
\* before the name, the prefix what comes before the connector.
ConnectorOf(line) ==
    SubSeq(line.text, Len(line.text) - Len(Name(line.path)) - 3,
           Len(line.text) - Len(Name(line.path)))
PrefixOf(line) == SubSeq(line.text, 1, Len(line.text) - Len(Name(line.path)) - 4)

\* The indexes of the rendered lines, of the root's line and of the lines of the
\* rendered children of directory d.
TreeIndexes == 1..Len(TreeBody)
IsRootLine(i) == TreeBody[i].path = repo_path
ChildLines(d) == {i \in TreeIndexes : ~IsRootLine(i) /\ Parent(TreeBody[i].path) = d}

\* No rendered sibling comes after line i: the entry is the last surviving sibling.
IsLastRendered(i) == \A j \in ChildLines(Parent(TreeBody[i].path)) : j <= i

\* No entry of the parent directory, excluded or not, sorts after path: the entry is
\* at the last position of its parent's full sorted child list.
IsLastOfAllChildren(path) == \A c \in iterdir(disk, Parent(path)) : ~tree_key_less(disk, path, c)

\* C4 as stated: a rendered entry has the corner connector if it is the last
\* surviving sibling among its parent's children, and the tee connector otherwise.
C4_Original_CornerIffLastSurviving ==
    TreeDone =>
        \A i \in TreeIndexes :
            ConnectorOf(TreeBody[i]) =
                (IF IsRootLine(i) \/ IsLastRendered(i) THEN Corner ELSE Tee)

\* C4 as amended: every connector is the corner or the tee; a rendered directory
\* with rendered children has at most one child with the corner connector, such a
\* child is the last rendered one, and there is one exactly when the last entry of
\* the directory's full sorted child list is itself rendered (not excluded).
C4_AtMostOneCornerAndItIsLast ==
    TreeDone =>
        \A k \in TreeIndexes :
            LET d == TreeBody[k].path
                corners == {i \in ChildLines(d) : ConnectorOf(TreeBody[i]) = Corner}
            IN  /\ ConnectorOf(TreeBody[k]) \in {Corner, Tee}
                /\ Cardinality(corners) <= 1
                /\ \A i \in corners : IsLastRendered(i)
                /\ corners /= {} <=> \E i \in ChildLines(d) : IsLastOfAllChildren(TreeBody[i].path)

\* A rendered directory with at least two rendered children and no corner among
\* them: the last entry of its full child list is excluded.
C4_Witness ==
    /\ pc = "done"
    /\ \E k \in TreeIndexes :
           /\ Cardinality(ChildLines(TreeBody[k].path)) >= 2
           /\ \A i \in ChildLines(TreeBody[k].path) : ConnectorOf(TreeBody[i]) = Tee

\* A path under the root that should_exclude does not exclude and none of whose
\* ancestors up to the root it excludes.
Surviving(path) ==
    /\ path \in DOMAIN disk
    /\ \A k \in Len(repo_path)..Len(path) :
           ~should_exclude(SubSeq(path, 1, k), exclude_patterns, gitignore_matcher)

\* C5: the tree output holds exactly one line for every surviving path and no other
\* line, each line ends with its path's bare name, the root is first, every
\* directory's line comes before the lines of its descendants, and the lines of one
\* subtree are contiguous.
C5_TreeIsPreorderOfSurvivors ==
    TreeDone =>
        /\ RenderedPaths = {p \in DOMAIN disk : Surviving(p)}
        /\ \A i, j \in TreeIndexes : TreeBody[i].path = TreeBody[j].path => i = j
        /\ \A i \in TreeIndexes : EndsWith(TreeBody[i].text, Name(TreeBody[i].path))
        /\ TreeIndexes /= {} => TreeBody[1].path = repo_path
        /\ \A i, j \in TreeIndexes :
               (i /= j /\ IsPrefix(TreeBody[i].path, TreeBody[j].path)) =>
                   /\ i < j
                   /\ \A k \in i..j : IsPrefix(TreeBody[i].path, TreeBody[k].path)

\* A tree with a nested subtree followed by a sibling, over a snapshot in which a
\* path that is not itself excluded lies under an excluded directory.
C5_Witness ==
    /\ pc = "done"
    /\ \E i, j, k \in TreeIndexes :
           /\ i < j /\ j < k
           /\ Parent(TreeBody[j].path) = TreeBody[i].path
           /\ Parent(TreeBody[k].path) = Parent(TreeBody[i].path)
           /\ ~IsRootLine(i)
    /\ \E p \in DOMAIN disk :
           /\ ~should_exclude(p, exclude_patterns, gitignore_matcher)
           /\ ~Surviving(p)

\* C6: the rendered children of a directory appear with every directory before
\* every file, and within each group in ascending order of bare name.
C6_DirectoriesFirstThenByName ==
    TreeDone =>
        \A i, j \in TreeIndexes :
            (/\ i < j
             /\ ~IsRootLine(i) /\ ~IsRootLine(j)
             /\ Parent(TreeBody[i].path) = Parent(TreeBody[j].path)) =>
                /\ ~(is_file(disk, TreeBody[i].path) /\ is_dir(disk, TreeBody[j].path))
                /\ (is_file(disk, TreeBody[i].path) = is_file(disk, TreeBody[j].path)) =>
                       StrLess(Name(TreeBody[i].path), Name(TreeBody[j].path))

\* A directory rendered with two directories and two files as children, one file's
\* name being smaller than one directory's name.
C6_Witness ==
    /\ pc = "done"
    /\ \E k \in TreeIndexes :
           LET kids == {TreeBody[i].path : i \in ChildLines(TreeBody[k].path)}
           IN  /\ Cardinality({c \in kids : is_dir(disk, c)}) >= 2
               /\ Cardinality({c \in kids : is_file(disk, c)}) >= 2
               /\ \E f, d \in kids :
                      is_file(disk, f) /\ is_dir(disk, d) /\ StrLess(Name(f), Name(d))

\* The line of a rendered path.
LineOf(path) == TreeBody[CHOOSE i \in TreeIndexes : TreeBody[i].path = path]

\* C10: the root, when rendered, has the corner connector and the empty prefix; any
\* other rendered entry has the corner connector if and only if it is at the last
\* position of its parent's full sorted child list, excluded children included, and
\* the tee connector otherwise; its prefix is its parent's prefix plus four spaces
\* when the parent has the corner connector, plus a vertical bar and three spaces
\* otherwise.
C10_ConnectorDecidedBeforeFiltering ==
    TreeDone =>
        \A i \in TreeIndexes :
            IF IsRootLine(i)
            THEN ConnectorOf(TreeBody[i]) = Corner /\ PrefixOf(TreeBody[i]) = <<>>
            ELSE /\ ConnectorOf(TreeBody[i]) =
                        (IF IsLastOfAllChildren(TreeBody[i].path) THEN Corner ELSE Tee)
                 /\ LET up == LineOf(Parent(TreeBody[i].path))
                    IN  PrefixOf(TreeBody[i]) =
                            PrefixOf(up) \o (IF ConnectorOf(up) = Corner
                                             THEN <<" ", " ", " ", " ">>
                                             ELSE <<"vbar", " ", " ", " ">>)

\* A rendered directory that is the last rendered child of its parent but has the
\* tee connector, because an excluded entry follows it in the full child list; it
\* has a rendered child, whose prefix therefore ends with a vertical bar segment.
C10_Witness ==
    /\ pc = "done"
    /\ \E i, j \in TreeIndexes :
           /\ ~IsRootLine(i)
           /\ IsLastRendered(i)
           /\ ConnectorOf(TreeBody[i]) = Tee
           /\ Parent(TreeBody[j].path) = TreeBody[i].path
           /\ EndsWith(PrefixOf(TreeBody[j]), <<"vbar", " ", " ", " ">>)

---------------------------------------------------------------------------
(* The shape of the content blocks *)

\* The indexes of the headers of body in ascending order, and the files whose
\* headers they are.
HeaderStarts(body) ==
    LET idx == HeaderIndexes(body)
    IN  [n \in 1..Cardinality(idx) |->
            CHOOSE i \in idx : Cardinality({j \in idx : j < i}) = n - 1]
HeaderPaths(body) ==
    LET starts == HeaderStarts(body)
    IN  [n \in 1..Len(starts) |->
            CHOOSE p \in DOMAIN disk : file_header(p) = body[starts[n]]]

\* The file is selected: it matches an inclusion pattern and is not excluded.
Selected(path) ==
    /\ is_file(disk, path)
    /\ matches_pattern(path, include_patterns)
    /\ ~should_exclude(path, exclude_patterns, gitignore_matcher)

\* Under their deepest common directory, p's entry has the smaller name.
PlainBefore(p, q) ==
    \E k \in 1..Len(p) :
        /\ k <= Len(q)
        /\ \A j \in 1..(k - 1) : p[j] = q[j]
        /\ StrLess(p[k], q[k])

\* C7: get_file_contents visits the entries of every directory in ascending order
\* of name, files and directories alike, and the content blocks are in the order of
\* that traversal.
C7_ContentInPlainPathOrder ==
    ContentsDone =>
        LET emitted == HeaderPaths(ContentBody)
        IN  /\ \A i, j \in 1..Len(emitted) : i < j => PlainBefore(emitted[i], emitted[j])
            /\ \A d \in DOMAIN disk :
                   is_dir(disk, d) =>
                       LET items == content_items(disk, d)
                       IN  /\ {items[i] : i \in 1..Len(items)} = iterdir(disk, d)
                           /\ \A i, j \in 1..Len(items) :
                                  i < j => StrLess(Name(items[i]), Name(items[j]))

\* Two files with content blocks whose tree lines are in the opposite order.
C7_Witness ==
    /\ pc = "done"
    /\ LET emitted == HeaderPaths(ContentBody)
           body == TreeBody
       IN  \E i, j \in 1..Len(emitted) :
               /\ i < j
               /\ \E m, n \in 1..Len(body) :
                      /\ body[m].path = emitted[j]
                      /\ body[n].path = emitted[i]
                      /\ m < n

\* The snapshot with every file readable, and what get_file_contents returns on it.
AllReadable == [p \in DOMAIN disk |-> [disk[p] EXCEPT !.error = NoError]]
IdealBody ==
    get_file_contents(AllReadable, repo_path, include_patterns, exclude_patterns,
                      gitignore_matcher)

\* C8: the content output holds one block per selected file, in the order of the
\* run in which every file is readable; the block of a file whose read fails is its
\* header and the one line "Error reading file: <message>", and the block of every
\* other file is the block it has in that run.
C8_ReadFailureIsLocal ==
    (ContentsDone /\ include_patterns /= {}) =>
        LET actual == ContentBody
            ideal == IdealBody
            emitted == HeaderPaths(actual)
            starts == HeaderStarts(actual)
            ideal_starts == HeaderStarts(ideal)
        IN  /\ actual /= <<>> => IsHeader(actual[1])
            /\ emitted = HeaderPaths(ideal)
            /\ {emitted[n] : n \in 1..Len(emitted)} = {p \in DOMAIN disk : Selected(p)}
            /\ \A n \in 1..Len(emitted) :
                   BlockAt(actual, starts[n]) =
                       (IF disk[emitted[n]].error /= NoError
                        THEN <<file_header(emitted[n]), error_line(disk[emitted[n]].error)>>
                        ELSE BlockAt(ideal, ideal_starts[n]))

\* A selected file whose read fails, between two selected files that are read and
\* have content lines.
C8_Witness ==
    /\ pc = "done"
    /\ LET actual == ContentBody
           emitted == HeaderPaths(actual)
           starts == HeaderStarts(actual)
       IN  \E i, j, k \in 1..Len(emitted) :
               /\ i < j /\ j < k
               /\ disk[emitted[j]].error /= NoError
               /\ disk[emitted[i]].error = NoError
               /\ disk[emitted[k]].error = NoError
               /\ Len(BlockAt(actual, starts[i])) >= 2
               /\ Len(BlockAt(actual, starts[k])) >= 2

---------------------------------------------------------------------------
(* The written document *)

\* The lines of the written document: the text between its "\n" characters.
DocLines ==
    LET RECURSIVE split(_)
        split(t) ==
            IF \E i \in 1..Len(t) : t[i] = "\n"
            THEN LET i == CHOOSE k \in 1..Len(t) :
                              t[k] = "\n" /\ \A j \in 1..(k - 1) : t[j] /= "\n"
                 IN  <<SubSeq(t, 1, i - 1)>> \o split(SubSeq(t, i + 1, Len(t)))
            ELSE <<t>>
    IN  split(output_file)

FileLabel == <<"F", "i", "l", "e", ":", " ">>
NotLineBoundary(c) == ~IsLineBoundary(c)

\* The lines of a file as read_text().splitlines() gives them.
LinesOf(path) == splitlines(UniversalNewlines(disk[path].data))

\* In the document the header line and the separator line of path are followed,
\* after gap further lines, by exactly lines, and then by the end of the document or
\* by the blank line and header line of the next block.
BlockInDocument(path, gap, lines) ==
    LET doc == DocLines
        n == Len(lines)
    IN  \E k \in 1..Len(doc) :
            /\ doc[k] = FileLabel \o PathStr(path)
            /\ k + 1 + gap + n <= Len(doc)
            /\ doc[k + 1] = Repeat("=", Len(PathStr(path)) + 6)
            /\ SubSeq(doc, k + 2 + gap, k + 1 + gap + n) = lines
            /\ \/ k + 1 + gap + n = Len(doc)
               \/ /\ k + 3 + gap + n <= Len(doc)
                  /\ doc[k + 2 + gap + n] = <<>>
                  /\ StartsWith(doc[k + 3 + gap + n], FileLabel)

====
